---- MODULE Spec2Model ----
(***************************************************************************)
(* A model of the hex-grid tower-defense game: the enemy walking system    *)
(* (gameplay/enemy.rs), the building attack timers and bullets             *)
(* (gameplay/buildings.rs, ui/player.rs) and the two-click route planner   *)
(* (main.rs).                                                              *)
(*                                                                         *)
(* Conventions.                                                            *)
(*  - A Hex is the pair <<x, y>> of axial coordinates.                     *)
(*  - World coordinates (f32 in the code) are fixed-point integers in      *)
(*    1/WorldUnit of a world unit; only the x and z components of a        *)
(*    translation are kept (the walking code never changes y).             *)
(*  - Durations are integers in 1/TicksPerSecond of a second.  The unit    *)
(*    is chosen so that time.delta_seconds() * 1.1 is the exact rational   *)
(*    dt * SpeedTenths / (10 * TicksPerSecond).                            *)
(*  - A panic (an unwrap of None, Commands::entity on a missing entity)    *)
(*    is the variable fault leaving "none"; every system is then disabled.*)
(*  - A Bevy frame runs every system once, in any order; the commands a    *)
(*    system queues are applied by EndFrame.                               *)
(***************************************************************************)
EXTENDS Integers, Sequences, FiniteSets, TLC

VARIABLES
    fault,        \* "none", or the panic that ended the program
    phase,        \* "startup" before PostStartup has run, then "running"
    mapRadius,    \* Map.entities: the keys are the hexagon of this radius
    pref,         \* which of the equal-cost paths a_star returns
    dt,           \* Time.delta() of the current frame
    ran,          \* the systems that have run in the current frame
    walkers,      \* enemy entity -> its WalkingPath, HexLocation, Transform
    nextId,       \* the next entity id the world hands out
    arrived,      \* Events<EnemyArrivedAtEnd> not yet read by the handler
    cmds,         \* Commands queued in this frame, applied by EndFrame
    sent,         \* history: enemy entity -> number of events sent for it
    buildings,    \* building entity -> its HasAttack timer and Transform
    bullets,      \* bullet entity -> its Bullet life timer and Transform,
                  \* and (history) ticks, age: the number and the sum of
                  \* the deltas it was ticked with
    hist,         \* history: building entity -> what its timer was fed
    objLoc,       \* pickable object -> its HexLocation
    obj1,         \* RoutePlanner.obj1 (0 is None)
    obj2,         \* RoutePlanner.obj2 (0 is None)
    routeEvents,  \* number of RouteChosenEvent not yet read by the listener
    highlighted,  \* the hexes given the highlighted material
    marked,       \* the objects given the highlighted material
    picked,       \* history: the picks since the listener last resolved
    query,        \* the <<start, end>> of a call of a_star
    found         \* the path that call returned (<<>> before it returns)

enemyVars == <<walkers, arrived, sent>>
combatVars == <<buildings, bullets, hist>>
routeVars == <<objLoc, obj1, obj2, routeEvents, highlighted, marked, picked>>
frameVars == <<dt, ran, nextId, cmds>>
pathVars == <<query, found>>
vars == <<fault, phase, mapRadius, pref, frameVars, enemyVars, combatVars, routeVars,
          pathVars>>

----------------------------------------------------------------------------
(* Bounds of the model *)

\* entity ids handed out to enemies
MaxEntities == 3

----------------------------------------------------------------------------
(* Arithmetic helpers *)

Abs(n) == IF n < 0 THEN -n ELSE n

Max2(a, b) == IF a >= b THEN a ELSE b

\* f32::trunc of a quotient: rounds toward zero
TruncDiv(a, b) == IF a >= 0 THEN a \div b ELSE -((-a) \div b)

----------------------------------------------------------------------------
(* hexx: Hex and HexLayout *)

\* Option<Hex>::None
NoHex == <<>>

\* Hex::ulength
HexLength(h) == Max2(Max2(Abs(h[1]), Abs(h[2])), Abs(h[1] + h[2]))

\* Hex::unsigned_distance_to
HexDistance(a, b) == HexLength(<<a[1] - b[1], a[2] - b[2]>>)

\* Hex::NEIGHBORS_COORDS
NeighborDirs == << <<1, 0>>, <<1, -1>>, <<0, -1>>, <<-1, 0>>, <<-1, 1>>, <<0, 1>> >>

Neighbor(h, i) == <<h[1] + NeighborDirs[i][1], h[2] + NeighborDirs[i][2]>>

\* shapes::hexagon(Hex::ZERO, radius): the keys of Map.entities
InMap(h, radius) == HexLength(h) <= radius

\* the radius setup_grid passes to shapes::hexagon
HexagonRadius == 10

\* const MAP_RADIUS
MAP_RADIUS == 20

\* fixed-point resolution of a world coordinate: 1/100 of a world unit
WorldUnit == 100

\* HexLayout { hex_size: 0.3, orientation: flat }: x = 0.3 * 3/2 * q
LayoutXPerQ == 45

\* z = 0.3 * sqrt(3)/2 * q + 0.3 * sqrt(3) * r, in 1/100 (0.2598.., 0.5196..)
LayoutZPerQ == 26

LayoutZPerR == 52

\* HexLayout::hex_to_world_pos, as <<x, z>>
HexToWorldPos(h) == <<LayoutXPerQ * h[1], LayoutZPerQ * h[1] + LayoutZPerR * h[2]>>

----------------------------------------------------------------------------
(* hexx::algorithms::a_star with the cost function |h| Some(1)             *)
(* On the unbounded uniform-cost grid a_star returns a shortest path from  *)
(* start to end, both included.  Which of the equal-cost paths it returns  *)
(* is the library's tie-break; the model leaves it open: p = 1 takes the   *)
(* first neighbour (in NEIGHBORS_COORDS order) that is one step closer to  *)
(* the goal, p = 2 the last one.                                           *)

Closer(cur, goal) ==
    {i \in 1..6 : HexDistance(Neighbor(cur, i), goal) = HexDistance(cur, goal) - 1}

PickDir(cur, goal, p) ==
    LET c == Closer(cur, goal)
    IN  IF p = 1 THEN CHOOSE i \in c : \A j \in c : i <= j
                 ELSE CHOOSE i \in c : \A j \in c : i >= j

RECURSIVE AStar(_, _, _)
AStar(start, goal, p) ==
    IF start = goal THEN <<start>>
    ELSE <<start>> \o AStar(Neighbor(start, PickDir(start, goal, p)), goal, p)

Prefs == {1, 2}

----------------------------------------------------------------------------
(* gameplay/enemy.rs *)

\* the waypoints of spawn_enemy
InitialHexField == <<0, -13>>

\* a variant of Pos1 with the sign of y lost
Pos1SignSlip == <<5, 7>>

Pos1 == <<5, -7>>
Pos2 == <<0, 0>>
Pos3 == <<-9, 13>>

\* spawn_enemy: the three a_star calls, per tie-break
Legs ==
    [p \in Prefs |-> << AStar(InitialHexField, Pos1, p),
                        AStar(Pos1, Pos2, p),
                        AStar(Pos2, Pos3, p) >>]

\* spawn_enemy: full_path, every leg pushed whole
FullPath(p) == Legs[p][1] \o Legs[p][2] \o Legs[p][3]

\* spawn_enemy: map.entities.get(pos).unwrap() for every pushed pos
SpawnLookupFails(p, radius) ==
    \E i \in 1..Len(FullPath(p)) : ~InMap(FullPath(p)[i], radius)

\* a variant of NewWalker whose HexLocation has the sign of y lost
NewWalkerSignSlip(p) ==
    [path |-> FullPath(p),
     next |-> FullPath(p)[2],
     loc  |-> <<0, 13>>,
     x    |-> HexToWorldPos(InitialHexField)[1],
     z    |-> HexToWorldPos(InitialHexField)[2]]

\* spawn_enemy: the components of the spawned enemy
NewWalker(p) ==
    [path |-> FullPath(p),
     next |-> FullPath(p)[2],
     loc  |-> InitialHexField,
     x    |-> HexToWorldPos(InitialHexField)[1],
     z    |-> HexToWorldPos(InitialHexField)[2]]

\* the 7.0 of approximate_pos
ApproxFactor == 7

\* approximate_pos(movement_vec) == Vec3::ZERO
ApproxZero(vx, vz) ==
    /\ TruncDiv(vx * ApproxFactor, WorldUnit) = 0
    /\ TruncDiv(vz * ApproxFactor, WorldUnit) = 0

\* the 1.1 of enemy_walking, in tenths
SpeedTenths == 11

\* resolution of a Duration
TicksPerSecond == 11000

\* a variant of Scaled that leaves the frame delta out
ScaledNoDelta(v, d) == TruncDiv(v * SpeedTenths, 10)

\* movement_vec.mul(time.delta_seconds() * 1.1), one component
Scaled(v, d) == TruncDiv(v * d * SpeedTenths, 10 * TicksPerSecond)

\* a variant of NextAfter that takes the h1 of the window whose h2 is h
NextAfterSwapped(path, h) ==
    LET hits == {i \in 2..Len(path) : path[i] = h}
    IN  IF hits = {} THEN NoHex
        ELSE path[(CHOOSE i \in hits : \A j \in hits : i >= j) - 1]

\* path.windows(2).for_each: the h2 of the last window whose h1 is h, or NoHex
NextAfter(path, h) ==
    LET hits == {i \in 1..(Len(path) - 1) : path[i] = h}
    IN  IF hits = {} THEN NoHex
        ELSE path[(CHOOSE i \in hits : \A j \in hits : i >= j) + 1]

\* enemy_walking: does the walker take the arrival branch
AtTarget(w) ==
    ApproxZero(HexToWorldPos(w.next)[1] - w.x, HexToWorldPos(w.next)[2] - w.z)

\* enemy_walking: does the body send EnemyArrivedAtEnd for this walker
Emits(w) == AtTarget(w) /\ w.loc = w.next

\* enemy_walking: the loop body, the walker's components afterwards
WalkOne(w, d) ==
    LET vx == HexToWorldPos(w.next)[1] - w.x
        vz == HexToWorldPos(w.next)[2] - w.z
    IN  IF ApproxZero(vx, vz)
        THEN IF w.loc = w.next
             THEN w
             ELSE LET n == NextAfter(w.path, w.next)
                  IN  [w EXCEPT !.loc = w.next,
                                !.next = IF n = NoHex THEN w.next ELSE n]
        ELSE [w EXCEPT !.x = w.x + Scaled(vx, d), !.z = w.z + Scaled(vz, d)]

EntityIds == 1..MaxEntities

\* the entities of a set, in increasing order (query iteration order)
RECURSIVE SetToSeq(_)
SetToSeq(S) ==
    IF S = {} THEN <<>>
    ELSE LET m == CHOOSE a \in S : \A b \in S : a <= b
         IN  <<m>> \o SetToSeq(S \ {m})

\* spawn_initial_enemy (PostStartup): spawn_enemy, its commands applied
SpawnInitialEnemy ==
    /\ fault = "none"
    /\ phase = "startup"
    /\ IF SpawnLookupFails(pref, mapRadius)
       THEN /\ fault' = "map_lookup"
            /\ UNCHANGED <<phase, walkers, nextId>>
       ELSE /\ walkers' = (nextId :> NewWalker(pref))
            /\ nextId' = nextId + 1
            /\ phase' = "running"
            /\ UNCHANGED fault
    /\ UNCHANGED <<mapRadius, pref, dt, ran, arrived, cmds, sent, combatVars, routeVars>>
    /\ UNCHANGED pathVars

\* a variant of WalkLoop in which only the first walker of the loop sees
\* the frame's delta
RECURSIVE WalkLoopDeltaOnce(_, _, _)
WalkLoopDeltaOnce(order, st, d) ==
    IF order = <<>> THEN st
    ELSE LET e == Head(order)
             w == st.walkers[e]
         IN  WalkLoopDeltaOnce(Tail(order),
                 [walkers |-> [st.walkers EXCEPT ![e] = WalkOne(w, d)],
                  events  |-> IF Emits(w) THEN Append(st.events, e)
                              ELSE st.events],
                 0)

\* enemy_walking: for (..) in &mut enemies, over the entities in order; st
\* holds the walkers' components and the events sent so far
RECURSIVE WalkLoop(_, _, _)
WalkLoop(order, st, d) ==
    IF order = <<>> THEN st
    ELSE LET e == Head(order)
             w == st.walkers[e]
         IN  WalkLoop(Tail(order),
                 [walkers |-> [st.walkers EXCEPT ![e] = WalkOne(w, d)],
                  events  |-> IF Emits(w) THEN Append(st.events, e)
                              ELSE st.events],
                 d)

\* enemy_walking, one run of the system
EnemyWalking ==
    /\ fault = "none"
    /\ phase = "running"
    /\ "walk" \notin ran
    /\ LET r == WalkLoop(SetToSeq(DOMAIN walkers),
                         [walkers |-> walkers, events |-> <<>>], dt)
       IN  /\ arrived' = arrived \o r.events
           /\ sent' = [e \in EntityIds |->
                          IF \E i \in 1..Len(r.events) : r.events[i] = e
                          THEN sent[e] + 1 ELSE sent[e]]
           /\ walkers' = r.walkers
    /\ ran' = ran \cup {"walk"}
    /\ UNCHANGED <<fault, phase, mapRadius, pref, dt, nextId, cmds, combatVars, routeVars>>
    /\ UNCHANGED pathVars

\* handle_enemy_events: the commands queued for a sequence of events
RECURSIVE HandlerCmds(_)
HandlerCmds(evs) ==
    IF evs = <<>> THEN <<>>
    ELSE << [op |-> "despawn", e |-> Head(evs)], [op |-> "spawn", e |-> 0] >>
         \o HandlerCmds(Tail(evs))

\* handle_enemy_events, one run of the system
HandleEnemyEvents ==
    /\ fault = "none"
    /\ phase = "running"
    /\ "handle" \notin ran
    /\ ran' = ran \cup {"handle"}
    /\ arrived' = <<>>
    /\ IF \E i \in 1..Len(arrived) : arrived[i] \notin DOMAIN walkers
       THEN \* Commands::entity panics on an entity that does not exist
            /\ fault' = "no_entity"
            /\ UNCHANGED cmds
       ELSE IF arrived # <<>> /\ SpawnLookupFails(pref, mapRadius)
       THEN /\ fault' = "map_lookup"
            /\ UNCHANGED cmds
       ELSE /\ cmds' = cmds \o HandlerCmds(arrived)
            /\ UNCHANGED fault
    /\ UNCHANGED <<phase, mapRadius, pref, dt, walkers, nextId, sent, combatVars, routeVars>>
    /\ UNCHANGED pathVars

\* the number of spawn commands in a queue
RECURSIVE SpawnCount(_)
SpawnCount(q) ==
    IF q = <<>> THEN 0
    ELSE (IF Head(q).op = "spawn" THEN 1 ELSE 0) + SpawnCount(Tail(q))

\* apply_system_buffers: the world after the queued commands
RECURSIVE ApplyCmds(_, _, _)
ApplyCmds(q, ws, id) ==
    IF q = <<>> THEN [walkers |-> ws, nextId |-> id]
    ELSE IF Head(q).op = "despawn"
    THEN ApplyCmds(Tail(q),
                   [e \in DOMAIN ws \ {Head(q).e} |-> ws[e]], id)
    ELSE ApplyCmds(Tail(q),
                   [e \in DOMAIN ws \cup {id} |->
                       IF e = id THEN NewWalker(pref) ELSE ws[e]],
                   id + 1)

\* the deltas a frame can have: 0, 0.5 s, 20/11 s
DtChoices == {0, 5500, 20000}

PositiveDt == DtChoices \ {0}

\* the end of a frame: the command queue is applied, Time advances
EndFrameWith(D) ==
    /\ fault = "none"
    /\ phase = "running"
    /\ ran = {"walk", "handle"}
    /\ nextId + SpawnCount(cmds) <= MaxEntities + 1
    /\ LET w == ApplyCmds(cmds, walkers, nextId)
       IN  /\ walkers' = w.walkers
           /\ nextId' = w.nextId
    /\ cmds' = <<>>
    /\ ran' = {}
    /\ dt' \in D
    /\ UNCHANGED <<fault, phase, mapRadius, pref, arrived, sent, combatVars, routeVars>>
    /\ UNCHANGED pathVars

EndFrame == EndFrameWith(DtChoices)

\* a run with no building placed
NoCombat == buildings = << >> /\ bullets = << >> /\ hist = << >>

\* a run in which a_star is only called by the systems
NoPath == query = <<>> /\ found = <<>>

\* a run with no pickable object clicked
NoRoute ==
    /\ objLoc = << >>
    /\ obj1 = 0
    /\ obj2 = 0
    /\ routeEvents = 0
    /\ highlighted = {}
    /\ marked = {}
    /\ picked = <<>>

\* The world after setup_grid, before PostStartup; the first delta is in D.
\* setup_grid fills the map with the hexagon of radius 10, on which
\* spawn_enemy's first lookup, of (0,-13), panics; the crate root that
\* registers EnemyPlugin is not main.rs as it stands (it declares no gameplay
\* module), so the enemy systems are also run on the map of the declared
\* MAP_RADIUS, which holds every waypoint.
InitEnemyWith(D) ==
    /\ fault = "none"
    /\ phase = "startup"
    /\ mapRadius \in {HexagonRadius, MAP_RADIUS}
    /\ pref \in Prefs
    /\ dt \in D
    /\ ran = {}
    /\ walkers = << >>
    /\ nextId = 1
    /\ arrived = <<>>
    /\ cmds = <<>>
    /\ sent = [e \in EntityIds |-> 0]
    /\ NoCombat
    /\ NoRoute
    /\ NoPath

\* Time's first delta is zero
InitEnemy == InitEnemyWith({0})

NextEnemy ==
    \/ SpawnInitialEnemy
    \/ EnemyWalking
    \/ HandleEnemyEvents
    \/ EndFrame

SpecEnemy == InitEnemy /\ [][NextEnemy]_vars

(* The frames of a run whose every delta is positive.  The app's loop runs  *)
(* every system in every frame, so a step that is enabled is taken.        *)
NextEnemyLive ==
    \/ SpawnInitialEnemy
    \/ EnemyWalking
    \/ HandleEnemyEvents
    \/ EndFrameWith(PositiveDt)

SpecEnemyLive ==
    InitEnemyWith(PositiveDt) /\ [][NextEnemyLive]_vars /\ WF_vars(NextEnemyLive)

----------------------------------------------------------------------------
(* Properties of the enemy walking system *)

\* the program has stopped: a panic, or the model's entity ids are used up
Halted == fault # "none" \/ nextId + SpawnCount(cmds) > MaxEntities + 1

\* the cursor of a walker: the position in its path of its target waypoint
Cursor(w) == CHOOSE i \in 1..Len(w.path) :
                 /\ w.path[i] = w.next
                 /\ \A j \in 1..Len(w.path) : w.path[j] = w.next => j <= i

\* the number of occurrences of h in a path
Count(path, h) == Cardinality({i \in 1..Len(path) : path[i] = h})

\* a step of the enemy_walking system
WalkStep == "walk" \notin ran /\ "walk" \in ran'

\* C1 (as claimed): under positive deltas every spawned walker eventually
\* has EnemyArrivedAtEnd sent for it, unless the program has stopped.
C1_EventuallyArrives ==
    \A e \in EntityIds : (e \in DOMAIN walkers) ~> (sent[e] > 0 \/ Halted)

\* C2 (as claimed): EnemyArrivedAtEnd is never sent twice for one entity.
C2_SentAtMostOnce == \A e \in EntityIds : sent[e] <= 1

\* C3: a tick of enemy_walking never decreases a walker's cursor.
C3_CursorNeverDecreases ==
    [][WalkStep => \A e \in DOMAIN walkers :
                      Cursor(walkers'[e]) >= Cursor(walkers[e])]_vars

\* C3 witness: a walker whose cursor has advanced to the end of its path
C3_Witness ==
    \E e \in DOMAIN walkers :
        /\ Cursor(walkers[e]) = Len(walkers[e].path)
        /\ "walk" \in ran

\* C4 (as claimed): the path of a spawned walker holds each junction
\* coordinate between two legs exactly once.
C4_JunctionOnce ==
    \A e \in DOMAIN walkers :
        Count(walkers[e].path, Pos1) = 1 /\ Count(walkers[e].path, Pos2) = 1

\* C5 (as claimed): a tick of enemy_walking with dt = 0 changes no walker's
\* target or hex location and sends no event.
C5_ZeroDtNoOp ==
    [][(WalkStep /\ dt = 0) =>
          /\ arrived' = arrived
          /\ \A e \in DOMAIN walkers :
                 /\ walkers'[e].next = walkers[e].next
                 /\ walkers'[e].loc = walkers[e].loc]_vars

\* C5 (amended): a tick with dt = 0 never moves a walker, and it changes
\* nothing of a walker that is not yet within the arrival tolerance of its
\* target; it sends events only for walkers within the tolerance.
\* (Positions are finite in every state of this specification.)
C5_ZeroDtAmended ==
    [][(WalkStep /\ dt = 0) =>
          /\ \A e \in DOMAIN walkers :
                 /\ walkers'[e].x = walkers[e].x
                 /\ walkers'[e].z = walkers[e].z
                 /\ ~AtTarget(walkers[e]) => walkers'[e] = walkers[e]
          /\ \A i \in (Len(arrived) + 1)..Len(arrived') :
                 AtTarget(walkers[arrived'[i]])]_vars

\* C5 witness: a zero-delta tick has run on a walker that is under way,
\* short of its target
C5_Witness ==
    /\ dt = 0
    /\ "walk" \in ran
    /\ \E e \in DOMAIN walkers :
           /\ ~AtTarget(walkers[e])
           /\ walkers[e].loc # InitialHexField

\* C10 (as claimed): a coordinate that is no key of the map never makes
\* the lookup fault.
C10_LookupNeverFaults == fault # "map_lookup"

\* spawn_enemy has computed its paths: it has spawned a walker or panicked
SpawnEnemyCalled == phase = "running" \/ fault = "map_lookup"

\* C13 (as claimed): every coordinate of every path computed by spawn_enemy
\* or listen_for_route_planning is a key of the map.
C13_PathsOnMap ==
    /\ SpawnEnemyCalled =>
           \A i \in 1..Len(FullPath(pref)) : InMap(FullPath(pref)[i], mapRadius)
    /\ \A h \in highlighted : InMap(h, mapRadius)

----------------------------------------------------------------------------
(* enemy_walking on a walker with a path of three cells in a row *)

\* the path of the scenario
ScenarioPath == << <<0, 0>>, <<1, 0>>, <<2, 0>> >>

\* the components spawn_enemy gives a walker, for the path ScenarioPath
ScenarioWalker ==
    [path |-> ScenarioPath,
     next |-> ScenarioPath[2],
     loc  |-> ScenarioPath[1],
     x    |-> HexToWorldPos(ScenarioPath[1])[1],
     z    |-> HexToWorldPos(ScenarioPath[1])[2]]

\* the world with the scenario's walker as entity 1, every delta positive
InitWalk ==
    /\ fault = "none"
    /\ phase = "running"
    /\ mapRadius = MAP_RADIUS
    /\ pref \in Prefs
    /\ dt \in PositiveDt
    /\ ran = {}
    /\ walkers = (1 :> ScenarioWalker)
    /\ nextId = 2
    /\ arrived = <<>>
    /\ cmds = <<>>
    /\ sent = [e \in EntityIds |-> 0]
    /\ NoCombat
    /\ NoRoute
    /\ NoPath

NextWalk ==
    \/ EnemyWalking
    \/ HandleEnemyEvents
    \/ EndFrameWith(PositiveDt)

SpecWalk == InitWalk /\ [][NextWalk]_vars

\* the deltas of the frames with two walkers: 0.5 s, and the 1/1.1 s that
\* makes a step the whole remaining vector
PairDt == {5500, 10000}

\* the world with two walkers at once: the scenario's as entity 1 and the one
\* spawn_enemy builds as entity 2
InitPair ==
    /\ fault = "none"
    /\ phase = "running"
    /\ mapRadius = MAP_RADIUS
    /\ pref = 1
    /\ dt \in PairDt
    /\ ran = {}
    /\ walkers = (1 :> ScenarioWalker) @@ (2 :> NewWalker(pref))
    /\ nextId = 3
    /\ arrived = <<>>
    /\ cmds = <<>>
    /\ sent = [e \in EntityIds |-> 0]
    /\ NoCombat
    /\ NoRoute
    /\ NoPath

NextPair ==
    \/ EnemyWalking
    \/ HandleEnemyEvents
    \/ EndFrameWith(PairDt)

SpecPair == InitPair /\ [][NextPair]_vars

\* C14 (as claimed): once the walker with the path [(0,0),(1,0),(2,0)] has
\* been ticked to its end, its world position is the world position of
\* (2,0) and exactly one EnemyArrivedAtEnd has been sent for it.
C14_EndsOnLastWaypoint ==
    \A e \in DOMAIN walkers :
        (walkers[e].path = ScenarioPath /\ sent[e] > 0) =>
            /\ walkers[e].x = HexToWorldPos(<<2, 0>>)[1]
            /\ walkers[e].z = HexToWorldPos(<<2, 0>>)[2]
            /\ sent[e] = 1

----------------------------------------------------------------------------
(* bevy Timer, as used by gameplay/buildings.rs *)

\* a Duration given in milliseconds
Ms(n) == n * (TicksPerSecond \div 1000)

\* Timer::new: nothing elapsed, not finished
NewTimer == [elapsed |-> 0, finished |-> FALSE]

\* a variant of RepeatingTick that needs more than the period to finish
RepeatingTickStrict(t, d, period) ==
    LET e == t.elapsed + d
    IN  IF e > period
        THEN [elapsed |-> e - period * (e \div period), finished |-> TRUE]
        ELSE [elapsed |-> e, finished |-> FALSE]

\* a variant of RepeatingTick that drops the time beyond the period
RepeatingTickReset(t, d, period) ==
    LET e == t.elapsed + d
    IN  IF e >= period
        THEN [elapsed |-> 0, finished |-> TRUE]
        ELSE [elapsed |-> e, finished |-> FALSE]

\* a variant of RepeatingTick that takes one period off the elapsed time,
\* however many periods have passed
RepeatingTickOnePeriod(t, d, period) ==
    LET e == t.elapsed + d
    IN  IF e >= period
        THEN [elapsed |-> e - period, finished |-> TRUE]
        ELSE [elapsed |-> e, finished |-> FALSE]

\* Timer::tick of a TimerMode::Repeating timer; finished() is the flag
RepeatingTick(t, d, period) ==
    LET e == t.elapsed + d
    IN  IF e >= period
        THEN [elapsed |-> e - period * (e \div period), finished |-> TRUE]
        ELSE [elapsed |-> e, finished |-> FALSE]

\* a variant of OnceTick that needs more than the duration to finish
OnceTickStrict(t, d, duration) ==
    IF t.finished THEN t
    ELSE LET e == t.elapsed + d
         IN  IF e > duration
             THEN [elapsed |-> duration, finished |-> TRUE]
             ELSE [elapsed |-> e, finished |-> FALSE]

\* Timer::tick of a TimerMode::Once timer
OnceTick(t, d, duration) ==
    IF t.finished THEN t
    ELSE LET e == t.elapsed + d
         IN  IF e >= duration
             THEN [elapsed |-> duration, finished |-> TRUE]
             ELSE [elapsed |-> e, finished |-> FALSE]

----------------------------------------------------------------------------
(* gameplay/buildings.rs and ui/player.rs: buildings and bullets *)

\* Timer::new(Duration::from_millis(800), TimerMode::Repeating)
AttackPeriod == Ms(800)

\* Timer::new(Duration::from_millis(300), TimerMode::Once)
BulletLife == Ms(300)

\* Bullet { speed: 0.2 }, in 1/WorldUnit
BulletSpeed == 20

\* ticks fed to one attack timer in a run
MaxTicks == 8

\* the hex fields a building is placed on
PlaceCells == { <<0, 0>>, <<2, -1>> }

\* the deltas a frame can have: 0, 100 ms, 500 ms, 800 ms, 1600 ms
CombatDt == {Ms(0), Ms(100), Ms(500), Ms(800), Ms(1600)}

\* the history of a timer that has not been ticked
NewHist == [ticks |-> 0, total |-> 0, fires |-> 0, firstFire |-> 0,
            longest |-> 0, all100 |-> TRUE]

\* the history of a timer after a tick of d that left the timer as t
HistAfter(h, d, t) ==
    [ticks     |-> h.ticks + 1,
     total     |-> h.total + d,
     fires     |-> h.fires + (IF t.finished THEN 1 ELSE 0),
     firstFire |-> IF t.finished /\ h.firstFire = 0 THEN h.ticks + 1
                   ELSE h.firstFire,
     longest   |-> Max2(h.longest, d),
     all100    |-> h.all100 /\ d = Ms(100)]

\* a variant of ShootCmds that spawns the bullet with the default Transform
RECURSIVE ShootCmdsAtOrigin(_, _)
ShootCmdsAtOrigin(es, bs) ==
    IF es = <<>> THEN <<>>
    ELSE (IF bs[Head(es)].timer.finished
          THEN << [op |-> "bullet", e |-> 0, x |-> 0, z |-> 0] >>
          ELSE <<>>)
         \o ShootCmdsAtOrigin(Tail(es), bs)

\* building_shooting: the bullets spawned by the buildings es, in order
RECURSIVE ShootCmds(_, _)
ShootCmds(es, bs) ==
    IF es = <<>> THEN <<>>
    ELSE (IF bs[Head(es)].timer.finished
          THEN << [op |-> "bullet", e |-> 0,
                   x |-> bs[Head(es)].x, z |-> bs[Head(es)].z] >>
          ELSE <<>>)
         \o ShootCmds(Tail(es), bs)

\* building_shooting, one run of the system
BuildingShooting ==
    /\ fault = "none"
    /\ phase = "running"
    /\ "shoot" \notin ran
    /\ \A b \in DOMAIN buildings : hist[b].ticks < MaxTicks
    /\ buildings' = [b \in DOMAIN buildings |->
                        [buildings[b] EXCEPT
                            !.timer = RepeatingTick(@, dt, AttackPeriod)]]
    /\ hist' = [b \in DOMAIN hist |-> HistAfter(hist[b], dt, buildings'[b].timer)]
    /\ cmds' = cmds \o ShootCmds(SetToSeq(DOMAIN buildings), buildings')
    /\ ran' = ran \cup {"shoot"}
    /\ UNCHANGED <<fault, phase, mapRadius, pref, dt, nextId, bullets,
                   enemyVars, routeVars>>
    /\ UNCHANGED pathVars

\* move_bullets: the despawns queued for the bullets es, in order
RECURSIVE ExpireCmds(_, _)
ExpireCmds(es, ks) ==
    IF es = <<>> THEN <<>>
    ELSE (IF ks[Head(es)].life.finished
          THEN << [op |-> "despawn", e |-> Head(es), x |-> 0, z |-> 0] >>
          ELSE <<>>)
         \o ExpireCmds(Tail(es), ks)

\* move_bullets, one run of the system
MoveBullets ==
    /\ fault = "none"
    /\ phase = "running"
    /\ "move" \notin ran
    /\ bullets' = [k \in DOMAIN bullets |->
                      [bullets[k] EXCEPT
                          !.x = @ + BulletSpeed,
                          !.life = OnceTick(@, dt, BulletLife),
                          !.age = @ + dt,
                          !.ticks = @ + 1]]
    /\ cmds' = cmds \o ExpireCmds(SetToSeq(DOMAIN bullets), bullets')
    /\ ran' = ran \cup {"move"}
    /\ UNCHANGED <<fault, phase, mapRadius, pref, dt, nextId, buildings, hist,
                   enemyVars, routeVars>>
    /\ UNCHANGED pathVars

\* the number of commands of one kind in a queue
RECURSIVE OpCount(_, _)
OpCount(q, op) ==
    IF q = <<>> THEN 0
    ELSE (IF Head(q).op = op THEN 1 ELSE 0) + OpCount(Tail(q), op)

\* a variant of OnHexFieldClick that clears the fields by emptying the map
OnHexFieldClickClearsMap(h) ==
    /\ fault = "none"
    /\ phase = "running"
    /\ "place" \notin ran
    /\ DOMAIN buildings = {}
    /\ OpCount(cmds, "place") = 0
    /\ cmds' = cmds \o << [op |-> "place", e |-> 0,
                           x |-> HexToWorldPos(h)[1], z |-> HexToWorldPos(h)[2]] >>
    /\ ran' = ran \cup {"place"}
    /\ mapRadius' = -1
    /\ UNCHANGED <<fault, phase, pref, dt, nextId, combatVars,
                   enemyVars, routeVars, pathVars>>

\* on_hex_field_click for a click on the hex field h: the building under
\* placement gets BuildingTag, a fresh HasAttack timer and its Transform.
\* A run places one building: the timers of different buildings share no
\* state.
OnHexFieldClick(h) ==
    /\ fault = "none"
    /\ phase = "running"
    /\ "place" \notin ran
    /\ DOMAIN buildings = {}
    /\ OpCount(cmds, "place") = 0
    /\ cmds' = cmds \o << [op |-> "place", e |-> 0,
                           x |-> HexToWorldPos(h)[1], z |-> HexToWorldPos(h)[2]] >>
    /\ ran' = ran \cup {"place"}
    /\ UNCHANGED <<fault, phase, mapRadius, pref, dt, nextId, combatVars,
                   enemyVars, routeVars>>
    /\ UNCHANGED pathVars

\* apply_system_buffers: buildings, bullets, histories and next id afterwards
RECURSIVE ApplyCombat(_, _)
ApplyCombat(q, w) ==
    IF q = <<>> THEN w
    ELSE LET c == Head(q)
         IN  ApplyCombat(Tail(q),
                CASE c.op = "place" ->
                       [w EXCEPT
                          !.buildings = [b \in DOMAIN w.buildings \cup {w.nextId} |->
                              IF b = w.nextId
                              THEN [timer |-> NewTimer, x |-> c.x, z |-> c.z]
                              ELSE w.buildings[b]],
                          !.hist = [b \in DOMAIN w.hist \cup {w.nextId} |->
                              IF b = w.nextId THEN NewHist ELSE w.hist[b]],
                          !.nextId = w.nextId + 1]
                  [] c.op = "bullet" ->
                       [w EXCEPT
                          !.bullets = [k \in DOMAIN w.bullets \cup {w.nextId} |->
                              IF k = w.nextId
                              THEN [life |-> NewTimer, x |-> c.x, z |-> c.z,
                                    age |-> 0, ticks |-> 0]
                              ELSE w.bullets[k]],
                          !.nextId = w.nextId + 1]
                  [] OTHER ->
                       [w EXCEPT
                          !.bullets = [k \in DOMAIN w.bullets \ {c.e} |->
                              w.bullets[k]]])

\* the end of a frame: the command queue is applied, Time advances
EndFrameCombat ==
    /\ fault = "none"
    /\ phase = "running"
    /\ {"shoot", "move"} \subseteq ran
    /\ LET w == ApplyCombat(cmds, [buildings |-> buildings, bullets |-> bullets,
                                   hist |-> hist, nextId |-> nextId])
       IN  /\ buildings' = w.buildings
           /\ bullets' = w.bullets
           /\ hist' = w.hist
           /\ nextId' = w.nextId
    /\ highlighted' = IF OpCount(cmds, "place") > 0 THEN {} ELSE highlighted
    /\ cmds' = <<>>
    /\ ran' = {}
    /\ dt' \in CombatDt
    /\ UNCHANGED <<fault, phase, mapRadius, pref, enemyVars,
                   objLoc, obj1, obj2, routeEvents, marked, picked>>
    /\ UNCHANGED pathVars

InitCombat ==
    /\ fault = "none"
    /\ phase = "running"
    /\ mapRadius = HexagonRadius
    /\ pref = 1
    /\ dt = 0
    /\ ran = {}
    /\ nextId = 1
    /\ cmds = <<>>
    /\ walkers = << >>
    /\ arrived = <<>>
    /\ sent = [e \in EntityIds |-> 0]
    /\ NoCombat
    /\ NoRoute
    /\ NoPath

NextCombat ==
    \/ BuildingShooting
    \/ MoveBullets
    \/ \E h \in PlaceCells : OnHexFieldClick(h)
    \/ EndFrameCombat

SpecCombat == InitCombat /\ [][NextCombat]_vars

\* the end of a frame that is followed by a frame with a positive delta
EndFrameCombatPositive == EndFrameCombat /\ dt' # 0

(* The frames of a run whose every delta after the first is positive.  The *)
(* app's loop runs every system in every frame, so a step that is enabled  *)
(* is taken.                                                               *)
NextCombatLive ==
    \/ BuildingShooting
    \/ MoveBullets
    \/ \E h \in PlaceCells : OnHexFieldClick(h)
    \/ EndFrameCombatPositive

SpecCombatLive ==
    InitCombat /\ [][NextCombatLive]_vars /\ WF_vars(NextCombatLive)

----------------------------------------------------------------------------
(* Properties of the attack timer *)

\* C6: an 800 ms attack timer fed eight ticks of 100 ms from its placement
\* fires on the eighth tick and on no earlier one.
C6_FiresOnEighthTick ==
    \A b \in DOMAIN buildings :
        (hist[b].all100 /\ hist[b].ticks <= 8) =>
            /\ hist[b].fires = (IF hist[b].ticks = 8 THEN 1 ELSE 0)
            /\ hist[b].firstFire = (IF hist[b].ticks = 8 THEN 8 ELSE 0)

\* C6 witness: a building whose timer got eight ticks of 100 ms and fired
C6_Witness ==
    \E b \in DOMAIN buildings :
        hist[b].all100 /\ hist[b].ticks = 8 /\ hist[b].fires = 1

\* C7 (as claimed): the number of ticks on which the timer is ready is
\* floor(T / P) for every sequence of ticks of total T.
C7_FiresFloor ==
    \A b \in DOMAIN buildings : hist[b].fires = hist[b].total \div AttackPeriod

\* C7 (amended): the number of ticks on which the timer is ready is
\* floor(T / P) as long as no single tick is longer than the period.
C7_FiresFloorShortTicks ==
    \A b \in DOMAIN buildings :
        hist[b].longest <= AttackPeriod =>
            hist[b].fires = hist[b].total \div AttackPeriod

\* C7 witness: a timer fed ticks no longer than its period that fired twice
\* and carries time over
C7_Witness ==
    \E b \in DOMAIN buildings :
        /\ hist[b].longest <= AttackPeriod
        /\ hist[b].fires >= 2
        /\ buildings[b].timer.elapsed > 0

----------------------------------------------------------------------------
(* Properties of the bullets *)

\* a step of the move_bullets system
MoveStep == "move" \notin ran /\ "move" \in ran'

\* the entity ids a bullet can get
BulletIds == 1..(MaxTicks + 2)

\* the model's ticks of the attack timer are used up
CombatHalted == \E b \in DOMAIN buildings : hist[b].ticks >= MaxTicks

\* does the queue q hold a despawn of the entity k
DespawnQueued(q, k) == \E i \in 1..Len(q) : q[i].op = "despawn" /\ q[i].e = k

\* the shortest positive delta of a frame
ShortestDelta == CHOOSE d \in CombatDt \ {0} : \A c \in CombatDt \ {0} : d <= c

\* the model stopped before the bullet k was through: it got fewer ticks
\* than 300 ms take at the shortest delta, or the frame of its last tick
\* does not end
StoppedEarly(k) ==
    /\ CombatHalted
    /\ \/ bullets[k].ticks * ShortestDelta < BulletLife
       \/ DespawnQueued(cmds, k)

\* C16: a tick of move_bullets queues the despawn of a bullet exactly if the
\* deltas the bullet was ticked with, this one included, reach 300 ms; the
\* end of that frame removes the bullet, so no bullet that is ticked has
\* reached 300 ms before; and with positive deltas every bullet is
\* eventually despawned: at any time, a later time comes at which it is not
\* in the world (unless the model stopped before the bullet was through).
C16_DespawnedWhenLifeRunsOut ==
    /\ [][MoveStep =>
             \A k \in DOMAIN bullets :
                 /\ bullets[k].age < BulletLife
                 /\ DespawnQueued(cmds', k) <=> (bullets[k].age + dt >= BulletLife)
                 /\ ~DespawnQueued(cmds, k)]_vars
    /\ [][\A k \in DOMAIN bullets :
             (DespawnQueued(cmds, k) /\ cmds' = <<>>) => k \notin DOMAIN bullets']_vars
    /\ \A k \in BulletIds : []<>(k \notin DOMAIN bullets \/ StoppedEarly(k))

\* C16 witness: a bullet that was ticked three times to exactly 300 ms has
\* its despawn queued
C16_Witness ==
    \E k \in DOMAIN bullets :
        /\ bullets[k].age = BulletLife
        /\ bullets[k].x = buildings[1].x + 3 * BulletSpeed
        /\ DespawnQueued(cmds, k)

\* C15 (as claimed): a tick of move_bullets with delta dt displaces every
\* bullet by speed * dt along x and by nothing along z; with dt = 0 it leaves
\* the bullet where it is.
C15_DisplacementSpeedTimesDt ==
    [][MoveStep =>
          \A k \in DOMAIN bullets :
              /\ (bullets'[k].x - bullets[k].x) * TicksPerSecond = BulletSpeed * dt
              /\ bullets'[k].z = bullets[k].z]_vars

----------------------------------------------------------------------------
(* Properties of building_shooting and of the map under the systems *)

\* a step of the building_shooting system
ShootStep == "shoot" \notin ran /\ "shoot" \in ran'

\* the commands a step appends to the queue
Appended == SubSeq(cmds', Len(cmds) + 1, Len(cmds'))

\* C21: the elapsed time of every attack timer is at least 0 and less than
\* the period, and it is what the deltas fed to the timer leave beyond whole
\* periods.
C21_ElapsedBelowPeriod ==
    \A b \in DOMAIN buildings :
        /\ 0 <= buildings[b].timer.elapsed
        /\ buildings[b].timer.elapsed < AttackPeriod
        /\ buildings[b].timer.elapsed = hist[b].total % AttackPeriod

\* C21 witness: a timer that was fed more than two periods in one tick and
\* has kept the time beyond them
C21_Witness ==
    \E b \in DOMAIN buildings :
        /\ hist[b].longest >= 2 * AttackPeriod
        /\ hist[b].total > hist[b].longest
        /\ buildings[b].timer.elapsed > 0

\* C22: a tick of building_shooting queues one bullet, at the building's x
\* and z, for every building whose timer finished on the tick, and none for
\* any other; it leaves every building where it is; and every bullet enters
\* the world at the x and z of a building.
C22_OneBulletPerFinishedTimer ==
    /\ [][ShootStep =>
             /\ \A b \in DOMAIN buildings :
                    /\ buildings'[b].x = buildings[b].x
                    /\ buildings'[b].z = buildings[b].z
                    /\ buildings'[b].timer.finished =>
                           \E i \in 1..Len(Appended) :
                               /\ Appended[i].op = "bullet"
                               /\ Appended[i].x = buildings[b].x
                               /\ Appended[i].z = buildings[b].z
             /\ OpCount(Appended, "bullet") =
                    Cardinality({b \in DOMAIN buildings : buildings'[b].timer.finished})
             /\ Len(Appended) = OpCount(Appended, "bullet")]_vars
    /\ [][\A k \in (DOMAIN bullets') \ (DOMAIN bullets) :
             \E b \in DOMAIN buildings :
                 bullets'[k].x = buildings[b].x /\ bullets'[k].z = buildings[b].z]_vars

\* C22 witness: a bullet that has just been spawned by a building placed
\* away from the origin
C22_Witness ==
    \E k \in DOMAIN bullets : \E b \in DOMAIN buildings :
        /\ bullets[k].ticks = 0
        /\ buildings[b].x # 0
        /\ bullets[k].x = buildings[b].x
        /\ bullets[k].z = buildings[b].z

----------------------------------------------------------------------------
(* main.rs: the pickable objects and the two-click route planner *)

\* pickable objects spawned in a run (spawn_stuff spawns nine)
MaxObjects == 2

\* RouteChosenEvents that can be waiting for the listener
MaxPending == 2

\* the map keys spawn_stuff's random index can select, in the model
ObjCells == { <<0, 0>>, <<3, -1>>, <<10, -4>> }

\* a_star between two object cells, per tie-break
RoutePath ==
    [a \in ObjCells, b \in ObjCells, p \in Prefs |-> AStar(a, b, p)]

\* the hexes of a path, as a set
Cells(path) == {path[i] : i \in 1..Len(path)}

\* spawn_stuff (in setup_grid): every object is put on the key at a random
\* index in 0..keys.len(); the index keys.len() has no key (NoHex) and
\* keys.get(..).unwrap() panics
SpawnStuff ==
    /\ fault = "none"
    /\ phase = "startup"
    /\ \E f \in [1..MaxObjects -> ObjCells \cup {NoHex}] :
          IF \E o \in 1..MaxObjects : f[o] = NoHex
          THEN /\ fault' = "index_out_of_range"
               /\ UNCHANGED <<phase, objLoc>>
          ELSE /\ objLoc' = f
               /\ phase' = "running"
               /\ UNCHANGED fault
    /\ UNCHANGED <<mapRadius, pref, frameVars, enemyVars, combatVars,
                   obj1, obj2, routeEvents, highlighted, marked, picked>>
    /\ UNCHANGED pathVars

\* on_object_clicked for a click on the object o
OnObjectClicked(o) ==
    /\ fault = "none"
    /\ phase = "running"
    /\ routeEvents < MaxPending
    /\ marked' = marked \cup {o}
    /\ IF obj1 = 0
       THEN /\ obj1' = o
            /\ UNCHANGED <<obj2, routeEvents>>
       ELSE /\ obj2' = o
            /\ routeEvents' = routeEvents + 1
            /\ UNCHANGED obj1
    /\ picked' = Append(picked, o)
    /\ UNCHANGED <<fault, phase, mapRadius, pref, frameVars, enemyVars,
                   combatVars, objLoc, highlighted>>
    /\ UNCHANGED pathVars

\* a variant of Resolve that resets obj2 only
RECURSIVE ResolveKeepsFirst(_, _, _, _)
ResolveKeepsFirst(n, a, b, hl) ==
    IF n = 0 THEN [fault |-> "none", obj1 |-> a, obj2 |-> b, hl |-> hl]
    ELSE IF a = 0 \/ b = 0
    THEN [fault |-> "unwrap_none", obj1 |-> a, obj2 |-> b, hl |-> hl]
    ELSE LET path == RoutePath[objLoc[a], objLoc[b], pref]
         IN  ResolveKeepsFirst(n - 1, a, 0, hl \cup Cells(path))

\* listen_for_route_planning: the loop over n unread events, from the
\* planner state (a, b) with the hexes hl highlighted so far
RECURSIVE Resolve(_, _, _, _)
Resolve(n, a, b, hl) ==
    IF n = 0 THEN [fault |-> "none", obj1 |-> a, obj2 |-> b, hl |-> hl]
    ELSE IF a = 0 \/ b = 0
    THEN [fault |-> "unwrap_none", obj1 |-> a, obj2 |-> b, hl |-> hl]
    ELSE IF a \notin DOMAIN objLoc \/ b \notin DOMAIN objLoc
    THEN [fault |-> "no_hex_location", obj1 |-> a, obj2 |-> b, hl |-> hl]
    ELSE LET path == RoutePath[objLoc[a], objLoc[b], pref]
         IN  IF \E h \in Cells(path) : ~InMap(h, mapRadius)
             THEN [fault |-> "map_lookup", obj1 |-> a, obj2 |-> b, hl |-> hl]
             ELSE Resolve(n - 1, 0, 0, hl \cup Cells(path))

\* listen_for_route_planning, one run of the system
ListenForRoutePlanning ==
    /\ fault = "none"
    /\ phase = "running"
    /\ LET r == Resolve(routeEvents, obj1, obj2, highlighted)
       IN  /\ fault' = r.fault
           /\ obj1' = r.obj1
           /\ obj2' = r.obj2
           /\ highlighted' = r.hl
    /\ routeEvents' = 0
    /\ picked' = IF routeEvents > 0 THEN <<>> ELSE picked
    /\ UNCHANGED <<phase, mapRadius, pref, frameVars, enemyVars, combatVars,
                   objLoc, marked>>
    /\ UNCHANGED pathVars

InitRoute ==
    /\ fault = "none"
    /\ phase = "startup"
    /\ mapRadius = HexagonRadius
    /\ pref \in Prefs
    /\ dt = 0
    /\ ran = {}
    /\ nextId = 1
    /\ cmds = <<>>
    /\ walkers = << >>
    /\ arrived = <<>>
    /\ sent = [e \in EntityIds |-> 0]
    /\ NoCombat
    /\ NoRoute
    /\ NoPath

NextRoute ==
    \/ SpawnStuff
    \/ \E o \in 1..MaxObjects : OnObjectClicked(o)
    \/ ListenForRoutePlanning

SpecRoute == InitRoute /\ [][NextRoute]_vars

----------------------------------------------------------------------------
(* Properties of the route planner *)

\* a step of listen_for_route_planning that reads at least one event
ListenStep == routeEvents > 0 /\ routeEvents' = 0

\* C8: from an empty selection, two picks on distinct objects send exactly
\* one RouteChosenEvent, and the listener's run on it leaves the selection
\* {None, None} without a fault.
C8_TwoPicksOneRoute ==
    /\ [][(Len(picked') = 2 /\ picked'[1] # picked'[2]) =>
             (routeEvents' = 1 /\ obj1' = picked'[1] /\ obj2' = picked'[2])]_vars
    /\ [][(ListenStep /\ Len(picked) = 2 /\ picked[1] # picked[2]) =>
             (fault' = "none" /\ obj1' = 0 /\ obj2' = 0 /\ routeEvents' = 0
              /\ Cells(RoutePath[objLoc[picked[1]], objLoc[picked[2]], pref])
                    \subseteq highlighted')]_vars

\* C8 witness: the listener has resolved a pair of picks on distinct objects
C8_Witness ==
    /\ fault = "none"
    /\ picked = <<>>
    /\ obj1 = 0
    /\ obj2 = 0
    /\ Cardinality(marked) = 2
    /\ highlighted # {}

\* C9 (as claimed): the run of the listener on an event never faults on a
\* pick it cannot resolve, and leaves the selection {None, None}.
C9_UnresolvedPickSkipped ==
    [][ListenStep => (fault' = "none" /\ obj1' = 0 /\ obj2' = 0)]_vars

----------------------------------------------------------------------------
(* The calls of a_star: a_star(start, end, |h| Some(1)), as spawn_enemy and *)
(* listen_for_route_planning make them.  The cost function is Some(1) for   *)
(* every coordinate, so the call depends on start and end only.             *)

\* radius of the hexagon the start and the end of a call are drawn from
PathRadius == 3

\* shapes::hexagon(Hex::ZERO, PathRadius)
PathCells ==
    {h \in (-PathRadius..PathRadius) \X (-PathRadius..PathRadius) :
        HexLength(h) <= PathRadius}

\* the three calls of spawn_enemy
SpawnQueries == { <<InitialHexField, Pos1>>, <<Pos1, Pos2>>, <<Pos2, Pos3>> }

\* the calls made: spawn_enemy's, and listen_for_route_planning's for two
\* objects anywhere on the hexagon
Queries == SpawnQueries \cup (PathCells \X PathCells)

\* what a_star returns for every call and tie-break
PathTable == [q \in Queries, p \in Prefs |-> AStar(q[1], q[2], p)]

\* a variant of FindPath that passes end and start in the wrong order
FindPathSwapped ==
    /\ fault = "none"
    /\ query # <<>>
    /\ found = <<>>
    /\ found' = AStar(query[2], query[1], pref)
    /\ UNCHANGED <<fault, phase, mapRadius, pref, frameVars, enemyVars,
                   combatVars, routeVars, query>>

\* let path = a_star(start, end, |h| Some(1)): the call returns
FindPath ==
    /\ fault = "none"
    /\ query # <<>>
    /\ found = <<>>
    /\ found' = PathTable[query, pref]
    /\ UNCHANGED <<fault, phase, mapRadius, pref, frameVars, enemyVars,
                   combatVars, routeVars, query>>

InitPath ==
    /\ fault = "none"
    /\ phase = "running"
    /\ mapRadius = HexagonRadius
    /\ pref \in Prefs
    /\ dt = 0
    /\ ran = {}
    /\ nextId = 1
    /\ cmds = <<>>
    /\ walkers = << >>
    /\ arrived = <<>>
    /\ sent = [e \in EntityIds |-> 0]
    /\ NoCombat
    /\ NoRoute
    /\ query \in Queries
    /\ found = <<>>

NextPath == FindPath

SpecPath == InitPath /\ [][NextPath]_vars

----------------------------------------------------------------------------
(* Properties of the paths a_star returns *)

\* the number of steps of a path
Steps(path) == Len(path) - 1

\* breadth-first search on the open hexagon PathCells: the number of steps
\* from the cells of frontier (n steps from the start) to goal, -1 if none
RECURSIVE BfsDistance(_, _, _, _)
BfsDistance(frontier, seen, goal, n) ==
    IF goal \in frontier THEN n
    ELSE LET next == ({Neighbor(h, i) : h \in frontier, i \in 1..6}
                         \cap PathCells) \ seen
         IN  IF next = {} THEN -1
             ELSE BfsDistance(next, seen \cup next, goal, n + 1)

\* C11 (as claimed): the path from (0,-13) to (5,-7) has length 7 (counted
\* in coordinates or in steps), which is the hex distance of the two, and it
\* starts at (0,-13) and ends at (5,-7).
C11_FirstLegLengthSeven ==
    (query = <<InitialHexField, Pos1>> /\ found # <<>>) =>
        /\ (Len(found) = 7 \/ Steps(found) = 7)
        /\ HexDistance(InitialHexField, Pos1) = 7
        /\ found[1] = <<0, -13>>
        /\ found[Len(found)] = <<5, -7>>

\* C11 (amended): the path from (0,-13) to (5,-7) has 11 steps (12
\* coordinates), which is the hex distance of the two, and it starts at
\* (0,-13) and ends at (5,-7).
C11_FirstLegLengthEleven ==
    (query = <<InitialHexField, Pos1>> /\ found # <<>>) =>
        /\ Steps(found) = 11
        /\ Len(found) = 12
        /\ HexDistance(<<0, -13>>, <<5, -7>>) = 11
        /\ found[1] = <<0, -13>>
        /\ found[Len(found)] = <<5, -7>>

\* C11 witness: the call from (0,-13) to (5,-7) has returned its path
C11_Witness ==
    /\ query = << <<0, -13>>, <<5, -7>> >>
    /\ Len(found) > 1

\* C12: for every start and end on the open hexagon the returned path starts
\* at start, ends at end, and has as many steps as breadth-first search
\* needs from start to end.
C12_StepsEqualBfs ==
    (query \in PathCells \X PathCells /\ found # <<>>) =>
        /\ found[1] = query[1]
        /\ found[Len(found)] = query[2]
        /\ Steps(found) = BfsDistance({query[1]}, {query[1]}, query[2], 0)

\* C12 witness: a returned path between two cells on opposite corners of
\* the hexagon, where the straight lines between them differ per tie-break
C12_Witness ==
    /\ query \in PathCells \X PathCells
    /\ Steps(found) = 2 * PathRadius
    /\ query[1] # query[2]

----------------------------------------------------------------------------
(* Properties of the walkers' paths and of the steps along them *)

\* the position in a path of the first occurrence of h
FirstIndex(path, h) ==
    CHOOSE i \in 1..Len(path) :
        /\ path[i] = h
        /\ \A j \in 1..Len(path) : path[j] = h => i <= j

\* b lies between a and t
Between(a, b, t) == (a <= b /\ b <= t) \/ (t <= b /\ b <= a)

\* C17 (as claimed): a walker that arrives at a waypoint whose coordinate
\* occurs more than once in its path gets as its next target the element
\* after the first occurrence of the coordinate.
C17_NextAfterFirstOccurrence ==
    [][WalkStep =>
          \A e \in DOMAIN walkers :
              LET w == walkers[e]
              IN  (/\ AtTarget(w)
                   /\ w.loc # w.next
                   /\ Count(w.path, w.next) > 1) =>
                      walkers'[e].next = w.path[FirstIndex(w.path, w.next) + 1]]_vars

\* C18 (as claimed): after a tick of enemy_walking, for any delta, every
\* walker is on the segment from where it was to the world position of its
\* target: neither coordinate has passed the target's.
C18_NeverOvershoots ==
    [][WalkStep =>
          \A e \in DOMAIN walkers :
              LET w == walkers[e]
                  t == HexToWorldPos(w.next)
              IN  /\ Between(w.x, walkers'[e].x, t[1])
                  /\ Between(w.z, walkers'[e].z, t[2])]_vars

\* C19 (as claimed): the path of every walker is not empty, starts at the
\* spawn coordinate, ends at the last waypoint, and every two consecutive
\* elements of it are neighbours.
C19_PathIsValid ==
    \A e \in DOMAIN walkers :
        LET path == walkers[e].path
        IN  /\ Len(path) > 0
            /\ path[1] = InitialHexField
            /\ path[Len(path)] = Pos3
            /\ \A i \in 1..(Len(path) - 1) : HexDistance(path[i], path[i + 1]) = 1

\* C20: the target and the hex location of every walker are elements of its
\* path, and a walker is spawned with its hex location the first and its
\* target the second element of its path.
C20_CursorInPath ==
    /\ [](\A e \in DOMAIN walkers :
             /\ walkers[e].next \in Cells(walkers[e].path)
             /\ walkers[e].loc \in Cells(walkers[e].path))
    /\ [][\A e \in (DOMAIN walkers') \ (DOMAIN walkers) :
             /\ Len(walkers'[e].path) >= 2
             /\ walkers'[e].loc = walkers'[e].path[1]
             /\ walkers'[e].next = walkers'[e].path[2]]_vars

\* C20 witness: a walker spawned by handle_enemy_events that has walked on
\* to the second leg of its path
C20_Witness ==
    \E e \in DOMAIN walkers :
        /\ e > 1
        /\ walkers[e].loc = Pos1
        /\ walkers[e].next # Pos1

----------------------------------------------------------------------------
(* Properties of the systems' independence of order *)

\* the orders in which the entities of S can be visited
Orders(S) ==
    {f \in [1..Cardinality(S) -> S] :
        \A i, j \in 1..Cardinality(S) : f[i] = f[j] => i = j}

\* the elements of a sequence, as a set
Range(q) == {q[i] : i \in 1..Len(q)}

\* C24: a tick of enemy_walking leaves every walker in the state, and sends
\* the set of events, that the loop gives for any order of the walkers.
C24_OrderOfWalkersUnobservable ==
    [][WalkStep =>
          \A order \in Orders(DOMAIN walkers) :
              LET r == WalkLoop(order, [walkers |-> walkers, events |-> <<>>], dt)
              IN  /\ r.walkers = walkers'
                  /\ Range(r.events) =
                         Range(SubSeq(arrived', Len(arrived) + 1, Len(arrived')))]_vars

\* C24 witness: a tick with a positive delta has moved two walkers that are
\* on different paths and at different places
C24_Witness ==
    /\ dt > 0
    /\ "walk" \in ran
    /\ \E e1, e2 \in DOMAIN walkers :
           /\ walkers[e1].path # walkers[e2].path
           /\ walkers[e1].loc # walkers[e1].path[1]
           /\ walkers[e2].loc # walkers[e2].path[1]
           /\ ~AtTarget(walkers[e1])
           /\ ~AtTarget(walkers[e2])

\* C25 (as claimed): at every frame boundary after startup there is exactly
\* one enemy, whatever the order of enemy_walking and handle_enemy_events
\* within the frames.
C25_OneEnemyAtFrameBoundary ==
    (fault = "none" /\ phase = "running" /\ ran = {}) =>
        Cardinality(DOMAIN walkers) = 1

\* C26 (as claimed): for every interleaving of picks and runs of the
\* listener, no event is resolved while a pick is None.
C26_NeverReadsEmptyPick == fault # "unwrap_none"

====
